---------------------------- MODULE Spec2Model ----------------------------
(***************************************************************************)
(* Model of the Animator class of src/animator.js (first declaration,      *)
(* lines 29-448) on top of the class mechanism of src/declare.js.          *)
(*                                                                         *)
(* One Animator instance is constructed from an options object, animate()  *)
(* is called on it, and the browser then runs the animation-frame          *)
(* callbacks the instance requested while the wall clock advances.         *)
(***************************************************************************)
EXTENDS Integers, Naturals, Sequences, FiniteSets, TLC

(***************************************************************************)
(* Bounds of the model.                                                    *)
(***************************************************************************)
MaxFrames == 2
MaxLoops == 2
MaxLate == 1

(***************************************************************************)
(* Values.  A JavaScript value held by a keyframe or by the style of the   *)
(* element is a number (Num), a pixel string such as '3px' (Px) or any     *)
(* other string (Str), e.g. 'auto' or ''.                                  *)
(***************************************************************************)
Num(n) == [t |-> "num", n |-> n, s |-> ""]
Px(n) == [t |-> "px", n |-> n, s |-> ""]
Str(s) == [t |-> "str", n |-> 0, s |-> s]

\* isNaN(parseInt(v, 10)): a number and a pixel string parse, other strings
\* ('auto', '') do not.
parseIntIsNaN(v) == v.t = "str"

\* parseInt(v, 10) where it is a number.
parseInt(v) == v.n

\* var v = parseInt(x, 10); v = isNaN(v) ? 0 : v
parseIntOrZero(v) == IF parseIntIsNaN(v) THEN 0 ELSE parseInt(v)

(***************************************************************************)
(* Constants of the class definition.                                      *)
(***************************************************************************)
KEYFRAME_CONFIG_PROPERTIES == {"duration", "timing"}

KEYFRAME_ANIMATION_PROPERTIES ==
    {"width", "height", "left", "top", "color", "backgroundColor",
     "paddingLeft", "paddingRight", "paddingTop", "paddingBottom",
     "marginLeft", "marginRight", "marginTop", "marginBottom",
     "borderColor", "borderLeftColor", "borderRightColor", "borderTopColor",
     "borderBottomColor",
     "borderWidth", "borderLeftWidth", "borderRightWidth", "borderTopWidth",
     "borderBottomWidth"}

\* loops: 0 in the class definition; what resetLoops() assigns.
definitionLoops == 0

\* The names the timingFunction table has an entry for.
TimingNames == {"linear", "ease-out", "ease-in"}

\* The order in which for..in enumerates the properties of a keyframe
\* (insertion order; the keyframes of the model are written in this order).
PropOrder == <<"left", "borderWidth", "borderTopWidth", "borderRightWidth",
               "borderBottomWidth", "borderLeftWidth", "fooBar">>

PropIndex(name) == CHOOSE i \in 1..Len(PropOrder) : PropOrder[i] = name

\* multiProperties of getStyle: the concrete style names a name stands for.
multiProperties(name) ==
    IF name = "borderWidth"
    THEN {"borderTopWidth", "borderRightWidth", "borderBottomWidth", "borderLeftWidth"}
    ELSE {name}

\* The style names the model's element carries.
StyleNames == {"left", "borderTopWidth", "borderRightWidth",
               "borderBottomWidth", "borderLeftWidth", "fooBar"}

(***************************************************************************)
(* Keyframes.  duration = 0 and timing = "" stand for an absent key.       *)
(***************************************************************************)
Frame(props, duration, timing) ==
    [props |-> props, duration |-> duration, timing |-> timing]

\* The keyframes the options of the model are built from.
FrameSet ==
    { Frame([p \in {"left"} |-> Num(4)], 0, ""),
      Frame([p \in {"left", "borderWidth"} |-> IF p = "left" THEN Num(2) ELSE Num(3)],
            1, "ease-out"),
      Frame([p \in {"left", "fooBar"} |-> IF p = "left" THEN Num(4) ELSE Num(1)], 1, ""),
      Frame([p \in {"left"} |-> Num(1)], 1, "bounce") }

RECURSIVE SeqsUpTo(_, _)
SeqsUpTo(S, k) ==
    IF k = 0 THEN { <<>> }
    ELSE LET shorter == SeqsUpTo(S, k - 1)
         IN  shorter \cup { Append(q, x) : q \in { r \in shorter : Len(r) = k - 1 }, x \in S }

\* The styles the element may carry before animate().
InitialStyles ==
    { [ch \in StyleNames |->
          IF ch = "left" THEN l
          ELSE IF ch = "fooBar" THEN Str("")
          ELSE Px(1)] : l \in {Px(0), Str("auto")} }

\* The options objects handed to the constructor.
OptionSet ==
    [element : BOOLEAN,
     loops : 0..MaxLoops,
     timing : TimingNames \cup {"bounce"},
     duration : {2},
     keyframes : SeqsUpTo(FrameSet, MaxFrames)]

VARIABLES
    options,     \* the options object the instance was constructed from
    style0,      \* the style of the element when animate() was called
    element,     \* this.element: TRUE when an element is set
    loops,       \* this.loops
    timing,      \* this.timing
    duration,    \* this.duration
    keyframes,   \* this.keyframes
    style,       \* the style of the element, per concrete style name
    now,         \* (new Date()).getTime()
    ticks,       \* the callbacks handed to requestAnimationFrame, not yet run
    called,      \* animate() has been called
    log,         \* the lifecycle events fired so far, in order
    error,       \* the exception that ended a handler, if any
    lastWrite,   \* the last tick that wrote the style
    call,        \* the last direct application of an internal function
    instances,   \* how many instances of one class have been constructed
    eventScope,  \* bind.eventScope and unbind.eventScope of the class's hook
    listeners,   \* construct.listeners[name] of each instance
    boundVia,    \* per instance, the handlers bound and not unbound through it
    invoked      \* the last firing of the hook: by whom, which handlers ran

vars == <<options, style0, element, loops, timing, duration, keyframes,
          style, now, ticks, called, log, error, lastWrite, call,
          instances, eventScope, listeners, boundVia, invoked>>

\* The hook of a class of its own, with its instances.
hook == <<instances, eventScope, listeners, boundVia, invoked>>

\* What the playback of an instance leaves alone.
others == <<call, hook>>

\* No function has been applied directly.
NoDelta == [delta |-> 0, initial |-> 0]

NoCall == [fn |-> "none", tm |-> "", e |-> 0, d |-> 1, initial |-> 0, delta |-> 0,
           value |-> [num |-> 0, den |-> 1], style |-> <<>>, rgb |-> <<>>,
           source |-> <<>>, target |-> <<>>,
           deltas |-> [r |-> NoDelta, g |-> NoDelta, b |-> NoDelta, a |-> NoDelta,
                       hasA |-> FALSE],
           written |-> [fmt |-> "", r |-> 0, g |-> 0, b |-> 0,
                        a |-> [num |-> 0, den |-> 1]]]

\* No instance of the class with the hook has been constructed.
HookIdle ==
    /\ instances = 0
    /\ eventScope = 0
    /\ listeners = << >>
    /\ boundVia = << >>
    /\ invoked = [by |-> 0, handlers |-> << >>]

NoError == [kind |-> "none", name |-> "", frame |-> -1]
NoWrite == [frame |-> -1, e |-> -1, d |-> 1, names |-> {}]

Event(name, i) == [e |-> name, i |-> i]


(***************************************************************************)
(* getStyle: the current values of the concrete style names of a name.     *)
(* The inline style and the computed style are one map here: a value       *)
(* written to the inline style is the value the computed style returns.    *)
(***************************************************************************)
getStyle(st, name) == [ch \in multiProperties(name) |-> st[ch]]

(***************************************************************************)
(* animate(), lines 85-114: the extra frame that closes a loop.  For every *)
(* name of every keyframe, each concrete style name receives the current   *)
(* value, as a number when parseInt reads one and as the string otherwise. *)
(* The keys duration and timing of a keyframe are enumerated too, but the  *)
(* two assignments after the loop overwrite what the loop stored for them. *)
(***************************************************************************)
parseIntOrKeep(v) == IF parseIntIsNaN(v) THEN v ELSE Num(parseInt(v))

extraFrameNames(kfs) ==
    UNION { multiProperties(name) : name \in UNION { DOMAIN kfs[i].props : i \in 1..Len(kfs) } }

\* An extra frame that returns to the literal targets of keyframe 0 where it
\* has them, instead of the current values.
extraFrameFromFirst(kfs, st, tm, dur) ==
    Frame([ch \in extraFrameNames(kfs) |->
              IF ch \in DOMAIN kfs[1].props THEN kfs[1].props[ch]
              ELSE parseIntOrKeep(getStyle(st, ch)[ch])],
          IF dur # 0 THEN dur ELSE kfs[1].duration,
          IF tm # "" THEN tm ELSE kfs[1].timing)

extraFrame(kfs, st, tm, dur) ==
    Frame([ch \in extraFrameNames(kfs) |-> parseIntOrKeep(getStyle(st, ch)[ch])],
          IF dur # 0 THEN dur ELSE kfs[1].duration,
          IF tm # "" THEN tm ELSE kfs[1].timing)

(***************************************************************************)
(* animateKeyframe(frameIndex), lines 140-211, up to the request of the    *)
(* first animation frame.  frameIndex counts from 0 as in the source.      *)
(***************************************************************************)
\* A check that rejects nothing.
notAnimatableNone(frame) == {}

\* The names of a frame the whitelist rejects, and the first one for..in meets.
notAnimatable(frame) ==
    { name \in DOMAIN frame.props : name \notin KEYFRAME_ANIMATION_PROPERTIES }

firstNotAnimatable(frame) ==
    CHOOSE name \in notAnimatable(frame) :
        \A other \in notAnimatable(frame) : PropIndex(name) <= PropIndex(other)

\* The names the loop of lines 146-202 handles before it ends or throws.
compiledNames(frame) ==
    IF notAnimatable(frame) = {} THEN DOMAIN frame.props
    ELSE { name \in DOMAIN frame.props : PropIndex(name) < PropIndex(firstNotAnimatable(frame)) }

\* Lines 168-169: the target of a scalar property is coerced in place.
coerceFrame(frame) ==
    [frame EXCEPT !.props =
        [name \in DOMAIN frame.props |->
            IF name \in compiledNames(frame)
            THEN Num(parseIntOrZero(frame.props[name]))
            ELSE frame.props[name]]]

\* A compilation that takes the target itself for the delta.
compileDeltasAbsolute(frame, st) ==
    LET names == compiledNames(frame)
        owner(ch) == CHOOSE name \in names : ch \in multiProperties(name)
    IN  [ch \in UNION { multiProperties(name) : name \in names } |->
            [delta |-> parseIntOrZero(frame.props[owner(ch)]),
             initial |-> parseIntOrZero(getStyle(st, owner(ch))[ch])]]

\* Lines 159-172: one {delta, initial} record per concrete style name; a name
\* enumerated later overwrites the record of an earlier one.
compileDeltas(frame, st) ==
    LET names == compiledNames(frame)
        chans == UNION { multiProperties(name) : name \in names }
        owner(ch) == CHOOSE name \in names :
                        /\ ch \in multiProperties(name)
                        /\ \A other \in names : ch \in multiProperties(other)
                                                  => PropIndex(other) <= PropIndex(name)
    IN  [ch \in chans |->
            [delta |-> parseIntOrZero(frame.props[owner(ch)])
                         - parseIntOrZero(getStyle(st, owner(ch))[ch]),
             initial |-> parseIntOrZero(getStyle(st, owner(ch))[ch])]]

\* A callback that starts out with progress 0 already recorded.
ClosureStale(frameIndex, deltas, startTime, dur) ==
    [frameIndex |-> frameIndex, deltas |-> deltas, startTime |-> startTime,
     lastProgress |-> {0}, duration |-> dur]

\* The variables the callback of lines 211-265 closes over.
Closure(frameIndex, deltas, startTime, dur) ==
    [frameIndex |-> frameIndex, deltas |-> deltas, startTime |-> startTime,
     lastProgress |-> {}, duration |-> dur]

\* A variant that validates every remaining keyframe before it plays one.
animateKeyframeUpFront(kfs, st, clock, dur, frameIndex) ==
    IF frameIndex + 1 > Len(kfs)
    THEN [keyframes |-> kfs, events |-> <<>>, requested |-> {}, error |-> NoError]
    ELSE LET frame == kfs[frameIndex + 1]
             kfs2 == [kfs EXCEPT ![frameIndex + 1] = coerceFrame(frame)]
             bad == { i \in (frameIndex + 1)..Len(kfs) : notAnimatable(kfs[i]) # {} }
             first == CHOOSE i \in bad : \A j \in bad : i <= j
         IN  IF bad # {}
             THEN [keyframes |-> kfs, events |-> <<>>, requested |-> {},
                   error |-> [kind |-> "PropertyNotAnimatable",
                              name |-> firstNotAnimatable(kfs[first]),
                              frame |-> first - 1]]
             ELSE [keyframes |-> kfs2,
                   events |-> << Event("KeyframeBegin", frameIndex) >>,
                   requested |-> { Closure(frameIndex, compileDeltas(frame, st), clock,
                                           IF frame.duration # 0 THEN frame.duration ELSE dur) },
                   error |-> NoError]

\* A variant that fires KeyframeBegin before it compiles the frame.
animateKeyframeBeginFirst(kfs, st, clock, dur, frameIndex) ==
    IF frameIndex + 1 > Len(kfs)
    THEN [keyframes |-> kfs, events |-> <<>>, requested |-> {}, error |-> NoError]
    ELSE LET frame == kfs[frameIndex + 1]
             kfs2 == [kfs EXCEPT ![frameIndex + 1] = coerceFrame(frame)]
         IN  IF notAnimatable(frame) # {}
             THEN [keyframes |-> kfs2,
                   events |-> << Event("KeyframeBegin", frameIndex) >>,
                   requested |-> {},
                   error |-> [kind |-> "PropertyNotAnimatable",
                              name |-> firstNotAnimatable(frame),
                              frame |-> frameIndex]]
             ELSE [keyframes |-> kfs2,
                   events |-> << Event("KeyframeBegin", frameIndex) >>,
                   requested |-> { Closure(frameIndex, compileDeltas(frame, st), clock,
                                           IF frame.duration # 0 THEN frame.duration ELSE dur) },
                   error |-> NoError]

\* The effect of animateKeyframe(frameIndex) on the keyframes, the log, the
\* requested callbacks and the pending exception.
animateKeyframe(kfs, st, clock, dur, frameIndex) ==
    IF frameIndex + 1 > Len(kfs)
    THEN [keyframes |-> kfs, events |-> <<>>, requested |-> {}, error |-> NoError]
    ELSE LET frame == kfs[frameIndex + 1]
             kfs2 == [kfs EXCEPT ![frameIndex + 1] = coerceFrame(frame)]
         IN  IF notAnimatable(frame) # {}
             THEN [keyframes |-> kfs2, events |-> <<>>, requested |-> {},
                   error |-> [kind |-> "PropertyNotAnimatable",
                              name |-> firstNotAnimatable(frame),
                              frame |-> frameIndex]]
             ELSE [keyframes |-> kfs2,
                   events |-> << Event("KeyframeBegin", frameIndex) >>,
                   requested |-> { Closure(frameIndex, compileDeltas(frame, st), clock,
                                           IF frame.duration # 0 THEN frame.duration ELSE dur) },
                   error |-> NoError]

(***************************************************************************)
(* timingFunction, lines 271-301.  The result is a rational num / den.     *)
(* progress is e / d.  Math.sin and Math.cos are taken at the three        *)
(* points the model's durations produce: progress 0, 1/2 and 1.            *)
(***************************************************************************)
\* Math.sin(progress * Math.PI / 2): 0 at 0, 1 at 1; "h" is sin(pi/4).
sinHalfPi(e, d) == IF e = 0 THEN "0" ELSE IF e = d THEN "1" ELSE "h"

\* Math.cos(progress * Math.PI / 2): 1 at 0; at 1 the double 6.1e-17, not 0.
cosHalfPi(e, d) == IF e = 0 THEN "1" ELSE IF e = d THEN "eps" ELSE "h"

\* 1000 * base ^ 0.7071 (sin(pi/4) = cos(pi/4)), rounded, for base = 0..24.
PowHalfTable ==
    << 0, 1000, 1633, 2175, 2665, 3121, 3550, 3959, 4351, 4729, 5095, 5450,
       5796, 6133, 6463, 6786, 7103, 7414, 7720, 8021, 8317, 8609, 8897,
       9181, 9461 >>

\* 1000 * Math.pow(base, x) for an integer base >= 0.
pow(base, x) ==
    CASE x = "0" -> 1000
      [] x = "1" -> 1000 * base
      [] x = "eps" -> IF base = 0 THEN 0 ELSE 1000
      [] x = "h" -> PowHalfTable[base + 1]

timingFunction(tm, e, d, initial, delta) ==
    CASE tm = "linear" -> [num |-> initial * d + delta * e, den |-> d]
      [] tm = "ease-out" ->
            IF delta > 0
            THEN [num |-> 1000 * (initial + delta) - pow(delta, cosHalfPi(e, d)), den |-> 1000]
            ELSE [num |-> 1000 * (initial + delta) + pow(-delta, cosHalfPi(e, d)), den |-> 1000]
      [] tm = "ease-in" ->
            IF delta > 0
            THEN [num |-> 1000 * initial + pow(delta, sinHalfPi(e, d)), den |-> 1000]
            ELSE [num |-> 1000 * initial - pow(-delta, sinHalfPi(e, d)), den |-> 1000]

\* Math.round of a rational: the nearest integer, halves upwards.
\* A conversion that drops the fraction instead of rounding.
MathFloor(q) == q.num \div q.den

MathRound(q) == (2 * q.num + q.den) \div (2 * q.den)


(***************************************************************************)
(* The state after new Animator(options): configure() has assigned every   *)
(* option through its setter; nothing is scheduled and no event has fired. *)
(***************************************************************************)
Init ==
    /\ options \in OptionSet
    /\ style0 \in InitialStyles
    /\ element = options.element
    /\ loops = options.loops
    /\ timing = options.timing
    /\ duration = options.duration
    /\ keyframes = options.keyframes
    /\ style = style0
    /\ now = 0
    /\ ticks = {}
    /\ called = FALSE
    /\ log = <<>>
    /\ error = NoError
    /\ lastWrite = NoWrite
    /\ call = NoCall
    /\ HookIdle

(***************************************************************************)
(* animate(), lines 81-118.                                                *)
(***************************************************************************)
\* A check that lets an empty keyframe list through.
configurationErrorElementOnly(el, kfs) ==
    IF ~el THEN "No element specified" ELSE ""

\* Lines 82-83: the message animate() throws, "" when it throws nothing.  A
\* keyframe list that was never configured is the empty list of the class
\* definition, so a missing list and an empty one are the same state here.
configurationError(el, kfs) ==
    IF ~el THEN "No element specified"
    ELSE IF Len(kfs) = 0 THEN "No keyframes specified"
    ELSE ""

\* A test that also takes the branch for loops = 0.
needsExtraFrameAlways(l) == l >= 0

\* A test that takes the branch from two loops on.
needsExtraFrameFromTwo(l) == l > 1

\* Line 85: if (this.loops > 0).
needsExtraFrame(l) == l > 0

Animate ==
    /\ ~called
    /\ called' = TRUE
    /\ IF configurationError(element, keyframes) # ""
       THEN /\ error' = [kind |-> configurationError(element, keyframes),
                         name |-> "", frame |-> -1]
            /\ UNCHANGED <<keyframes, log, ticks>>
       ELSE LET kfs == IF needsExtraFrame(loops)
                       THEN Append(keyframes, extraFrame(keyframes, style, timing, duration))
                       ELSE keyframes
                r == animateKeyframe(kfs, style, now, duration, 0)
            IN  /\ keyframes' = r.keyframes
                /\ log' = log \o << Event("AnimationBegin", -1) >> \o r.events
                /\ ticks' = ticks \cup r.requested
                /\ error' = r.error
    /\ UNCHANGED <<options, style0, element, loops, timing, duration, style, now, lastWrite>>
    /\ UNCHANGED others

(***************************************************************************)
(* The callback of lines 211-265, run by the browser for one request.      *)
(***************************************************************************)
\* A progress that is complete at once.
progressOfDone(c, clock) == c.duration

\* progress as a numerator over the duration: elapsed time, at most duration.
progressOf(c, clock) ==
    IF clock - c.startTime > c.duration THEN c.duration ELSE clock - c.startTime

\* A resolution that ignores the keyframe's own timing.
resolvedTimingDefault(kfs, c, tm) == tm

\* frame.timing || this.timing (line 272), frame being keyframes[frameIndex].
resolvedTiming(kfs, c, tm) ==
    IF kfs[c.frameIndex + 1].timing # "" THEN kfs[c.frameIndex + 1].timing ELSE tm

\* Lines 220-241: the style after the writes of one tick.
writeStyle(st, c, tm, e) ==
    [ch \in DOMAIN st |->
        IF ch \in DOMAIN c.deltas
        THEN Px(MathRound(timingFunction(tm, e, c.duration,
                                         c.deltas[ch].initial, c.deltas[ch].delta)))
        ELSE st[ch]]

\* A decrement that leaves the counter alone.
decrementLoopsNone(l) == l

\* A decrement that takes two off the counter.
decrementLoopsTwice(l) == l - 2

\* --self.loops (line 255).
decrementLoops(l) == l - 1

\* An advance that skips a frame.
nextFrameIndexSkip(frameIndex) == frameIndex + 2

\* frameIndex + 1 (line 253).
nextFrameIndex(frameIndex) == frameIndex + 1

Tick(c) ==
    LET e == progressOf(c, now)
        tm == resolvedTiming(keyframes, c, timing)
        st == writeStyle(style, c, tm, e)
    IN
    /\ c \in ticks
    /\ IF e \in c.lastProgress
       THEN \* line 216: return, and nothing requests the callback again
            /\ ticks' = ticks \ {c}
            /\ UNCHANGED <<keyframes, loops, style, log, error, lastWrite>>
       ELSE IF DOMAIN c.deltas # {} /\ tm \notin TimingNames
       THEN \* line 298: ({...})[timing] is undefined, calling it throws
            /\ ticks' = ticks \ {c}
            /\ error' = [kind |-> "TypeError", name |-> tm, frame |-> c.frameIndex]
            /\ UNCHANGED <<keyframes, loops, style, log, lastWrite>>
       ELSE /\ style' = st
            /\ lastWrite' = [frame |-> c.frameIndex, e |-> e, d |-> c.duration,
                             names |-> DOMAIN c.deltas]
            /\ IF e < c.duration
               THEN /\ ticks' = (ticks \ {c}) \cup {[c EXCEPT !.lastProgress = {e}]}
                    /\ UNCHANGED <<keyframes, loops, log, error>>
               ELSE LET ended == log \o << Event("KeyframeEnd", c.frameIndex) >>
                    IN  IF c.frameIndex < Len(keyframes) - 1
                        THEN LET r == animateKeyframe(keyframes, st, now, duration, nextFrameIndex(c.frameIndex))
                             IN  /\ keyframes' = r.keyframes
                                 /\ log' = ended \o r.events
                                 /\ ticks' = (ticks \ {c}) \cup r.requested
                                 /\ error' = r.error
                                 /\ UNCHANGED loops
                        ELSE IF decrementLoops(loops) > 0
                        THEN LET r == animateKeyframe(keyframes, st, now, duration, 0)
                             IN  /\ keyframes' = r.keyframes
                                 /\ log' = ended \o r.events
                                 /\ ticks' = (ticks \ {c}) \cup r.requested
                                 /\ error' = r.error
                                 /\ loops' = decrementLoops(loops)
                        ELSE /\ loops' = definitionLoops
                             /\ log' = ended \o << Event("AnimationEnd", -1) >>
                             /\ ticks' = ticks \ {c}
                             /\ UNCHANGED <<keyframes, error>>
    /\ UNCHANGED <<options, style0, element, timing, duration, now, called>>
    /\ UNCHANGED others

RunTick == \E c \in ticks : Tick(c)

(***************************************************************************)
(* The wall clock moves on by a millisecond.  The browser runs a requested *)
(* callback no later than MaxLate ms after the frame's duration has        *)
(* elapsed (any later reading is clamped to the same progress 1).          *)
(***************************************************************************)
Advance ==
    /\ \E c \in ticks : now < c.startTime + c.duration + MaxLate
    /\ now' = now + 1
    /\ UNCHANGED <<options, style0, element, loops, timing, duration, keyframes,
                   style, ticks, called, log, error, lastWrite>>
    /\ UNCHANGED others

Next == Animate \/ RunTick \/ Advance

Spec == Init /\ [][Next]_vars

\* The scheduler eventually runs every requested callback, and the clock
\* does not stop while a callback is waiting for its frame to elapse.
FairSpec == Spec /\ WF_vars(RunTick) /\ WF_vars(Advance)

(***************************************************************************)
(* The same instance under a wall clock that may also be set back while a  *)
(* callback is waiting: (new Date()).getTime() follows the system clock,   *)
(* MaxSkew bounds how far behind a frame's start time it may fall.  The    *)
(* configurations are those that resolve every timing to linear.           *)
(***************************************************************************)
MaxSkew == 1

SkewInit ==
    /\ Init
    /\ options.timing = "linear"
    /\ \A i \in 1..Len(options.keyframes) : options.keyframes[i].timing = ""

SetBack ==
    /\ \E c \in ticks : now > c.startTime - MaxSkew
    /\ now' = now - 1
    /\ UNCHANGED <<options, style0, element, loops, timing, duration, keyframes,
                   style, ticks, called, log, error, lastWrite>>
    /\ UNCHANGED others

SkewNext == Animate \/ RunTick \/ Advance \/ SetBack

SkewSpec == SkewInit /\ [][SkewNext]_vars

(***************************************************************************)
(* One instance played more than once: after a playback has ended, the     *)
(* caller sets loops to the option's value again (resetLoops has put it    *)
(* back to 0, line 261) and calls animate() again.  this.keyframes is the  *)
(* array the caller passed (the setter stores the reference,               *)
(* src/declare.js 187-189), so keyframes is that one array.  The           *)
(* configurations are valid ones whose keyframes name their own timing,    *)
(* with the element's left at 0px.                                         *)
(***************************************************************************)
MaxPlaybacks == 2

\* The animate() calls that got as far as AnimationBegin.
playbacks == Cardinality({ j \in 1..Len(log) : log[j].e = "AnimationBegin" })

ReplayInit ==
    /\ Init
    /\ options.element
    /\ options.loops > 0
    /\ options.timing = "linear"
    /\ options.keyframes # << >>
    /\ \A i \in 1..Len(options.keyframes) :
          /\ notAnimatable(options.keyframes[i]) = {}
          /\ options.keyframes[i].timing \in TimingNames
    /\ style0["left"] = Px(0)

\* setLoops(l) and animate() (lines 81-118) once the last playback has ended.
AnimateAgain(l) ==
    /\ called
    /\ error = NoError
    /\ ticks = {}
    /\ log # << >>
    /\ log[Len(log)].e = "AnimationEnd"
    /\ playbacks < MaxPlaybacks
    /\ loops' = l
    /\ LET kfs == IF needsExtraFrame(l)
                  THEN Append(keyframes, extraFrame(keyframes, style, timing, duration))
                  ELSE keyframes
           r == animateKeyframe(kfs, style, now, duration, 0)
       IN  /\ keyframes' = r.keyframes
           /\ log' = log \o << Event("AnimationBegin", -1) >> \o r.events
           /\ ticks' = ticks \cup r.requested
           /\ error' = r.error
    /\ UNCHANGED <<options, style0, element, timing, duration, style, now, called, lastWrite>>
    /\ UNCHANGED others

ReplayNext ==
    \/ Animate
    \/ RunTick
    \/ Advance
    \/ AnimateAgain(options.loops)

ReplaySpec == ReplayInit /\ [][ReplayNext]_vars

(***************************************************************************)
(* One instance on which animate() is called at any moment, also while     *)
(* callbacks of earlier calls are still requested.  Every animate() call   *)
(* starts a chain of callbacks of its own; the chains share this.loops,    *)
(* this.keyframes and the element's style.  Two callbacks requested with   *)
(* equal closures are still two requests, so each closure carries the      *)
(* number of the animate() call its chain began with.  The configurations  *)
(* are the valid ones of one keyframe, played once or with one loop; a     *)
(* call is made while at most one chain is requested, and no later than    *)
(* MaxCallDelay ms after the instance was constructed.                     *)
(***************************************************************************)
MaxCallDelay == 1

\* The requested callbacks of one call of animateKeyframe, as part of chain k.
ofChain(requested, k) ==
    { [frameIndex |-> c.frameIndex, deltas |-> c.deltas, startTime |-> c.startTime,
       lastProgress |-> c.lastProgress, duration |-> c.duration, chain |-> k] :
          c \in requested }

\* A playback that requests its last callback once more after AnimationEnd.
afterAnimationEndAgain(c) == {c}

\* Lines 259-263: after onAnimationEnd() the callback requests nothing.
afterAnimationEnd(c) == {}

ReentrantInit ==
    /\ Init
    /\ options.element
    /\ options.loops <= 1
    /\ options.timing = "linear"
    /\ Len(options.keyframes) = 1
    /\ \A i \in 1..Len(options.keyframes) :
          /\ notAnimatable(options.keyframes[i]) = {}
          /\ options.keyframes[i].timing \in TimingNames
    /\ style0["left"] = Px(0)

\* animate(), lines 81-118, whatever is still requested.
AnimateChain ==
    /\ playbacks < MaxPlaybacks
    /\ Cardinality(ticks) <= 1
    /\ now <= MaxCallDelay
    /\ called' = TRUE
    /\ IF configurationError(element, keyframes) # ""
       THEN /\ error' = [kind |-> configurationError(element, keyframes),
                         name |-> "", frame |-> -1]
            /\ UNCHANGED <<keyframes, log, ticks>>
       ELSE LET kfs == IF needsExtraFrame(loops)
                       THEN Append(keyframes, extraFrame(keyframes, style, timing, duration))
                       ELSE keyframes
                r == animateKeyframe(kfs, style, now, duration, 0)
            IN  /\ keyframes' = r.keyframes
                /\ log' = log \o << Event("AnimationBegin", -1) >> \o r.events
                /\ ticks' = ticks \cup ofChain(r.requested, playbacks + 1)
                /\ error' = r.error
    /\ UNCHANGED <<options, style0, element, loops, timing, duration, style, now, lastWrite>>
    /\ UNCHANGED others

\* The callback of lines 211-265, run for one request of one chain.
TickChain(c) ==
    LET e == progressOf(c, now)
        tm == resolvedTiming(keyframes, c, timing)
        st == writeStyle(style, c, tm, e)
    IN
    /\ c \in ticks
    /\ IF e \in c.lastProgress
       THEN /\ ticks' = ticks \ {c}
            /\ UNCHANGED <<keyframes, loops, style, log, error, lastWrite>>
       ELSE IF DOMAIN c.deltas # {} /\ tm \notin TimingNames
       THEN /\ ticks' = ticks \ {c}
            /\ error' = [kind |-> "TypeError", name |-> tm, frame |-> c.frameIndex]
            /\ UNCHANGED <<keyframes, loops, style, log, lastWrite>>
       ELSE /\ style' = st
            /\ lastWrite' = [frame |-> c.frameIndex, e |-> e, d |-> c.duration,
                             names |-> DOMAIN c.deltas]
            /\ IF e < c.duration
               THEN /\ ticks' = (ticks \ {c}) \cup {[c EXCEPT !.lastProgress = {e}]}
                    /\ UNCHANGED <<keyframes, loops, log, error>>
               ELSE LET ended == log \o << Event("KeyframeEnd", c.frameIndex) >>
                    IN  IF c.frameIndex < Len(keyframes) - 1
                        THEN LET r == animateKeyframe(keyframes, st, now, duration,
                                                      nextFrameIndex(c.frameIndex))
                             IN  /\ keyframes' = r.keyframes
                                 /\ log' = ended \o r.events
                                 /\ ticks' = (ticks \ {c}) \cup ofChain(r.requested, c.chain)
                                 /\ error' = r.error
                                 /\ UNCHANGED loops
                        ELSE IF decrementLoops(loops) > 0
                        THEN LET r == animateKeyframe(keyframes, st, now, duration, 0)
                             IN  /\ keyframes' = r.keyframes
                                 /\ log' = ended \o r.events
                                 /\ ticks' = (ticks \ {c}) \cup ofChain(r.requested, c.chain)
                                 /\ error' = r.error
                                 /\ loops' = decrementLoops(loops)
                        ELSE /\ loops' = definitionLoops
                             /\ log' = ended \o << Event("AnimationEnd", -1) >>
                             /\ ticks' = (ticks \ {c}) \cup afterAnimationEnd(c)
                             /\ UNCHANGED <<keyframes, error>>
    /\ UNCHANGED <<options, style0, element, timing, duration, now, called>>
    /\ UNCHANGED others

RunTickChain == \E c \in ticks : TickChain(c)

\* The wall clock moves on by a millisecond while a requested callback has
\* its frame's duration still to run.
Elapse ==
    /\ \E c \in ticks : now < c.startTime + c.duration
    /\ now' = now + 1
    /\ UNCHANGED <<options, style0, element, loops, timing, duration, keyframes,
                   style, ticks, called, log, error, lastWrite>>
    /\ UNCHANGED others

ReentrantNext == AnimateChain \/ RunTickChain \/ Elapse

ReentrantSpec == ReentrantInit /\ [][ReentrantNext]_vars

(***************************************************************************)
(* timingFunction applied directly, as the tick callback applies it at     *)
(* line 222, to initial values and deltas up to MaxValue either side of 0  *)
(* and at the progress values 0, 1/2 and 1.  The instance itself, a        *)
(* constructed Animator without keyframes, is left alone.                  *)
(***************************************************************************)
MaxValue == 3

\* An Animator constructed without element and keyframes, never played.
playback == <<options, style0, element, loops, timing, duration, keyframes,
              style, now, ticks, called, log, error, lastWrite>>

InstanceIdle ==
    /\ options = [element |-> FALSE, loops |-> 0, timing |-> "linear",
                  duration |-> 2, keyframes |-> <<>>]
    /\ style0 = [ch \in StyleNames |->
                    IF ch = "fooBar" THEN Str("") ELSE IF ch = "left" THEN Px(0) ELSE Px(1)]
    /\ element = options.element
    /\ loops = options.loops
    /\ timing = options.timing
    /\ duration = options.duration
    /\ keyframes = options.keyframes
    /\ style = style0
    /\ now = 0
    /\ ticks = {}
    /\ called = FALSE
    /\ log = <<>>
    /\ error = NoError
    /\ lastWrite = NoWrite

InterpolatorInit == InstanceIdle /\ call = NoCall /\ HookIdle

Interpolate ==
    /\ \E tm \in TimingNames, d \in {1, 2}, initial, delta \in -MaxValue..MaxValue :
          \E e \in 0..d :
             call' = [NoCall EXCEPT !.fn = "timingFunction", !.tm = tm, !.e = e, !.d = d,
                                    !.initial = initial, !.delta = delta,
                                    !.value = timingFunction(tm, e, d, initial, delta)]
    /\ UNCHANGED <<playback, hook>>

InterpolatorNext == Interpolate

InterpolatorSpec == InterpolatorInit /\ [][InterpolatorNext]_vars

(***************************************************************************)
(* A lifecycle hook of declare.js (createEvent, lines 313-380, and the     *)
(* Class constructor, lines 385-412) for one class with one hook.  The     *)
(* hook function and its bind and unbind functions are created once, on    *)
(* the prototype; the constructor stores the instance under construction   *)
(* in bind.eventScope and unbind.eventScope and gives the instance a       *)
(* construct function of its own, which carries its listeners.             *)
(***************************************************************************)
MaxInstances == 2
MaxListeners == 2

\* The handlers a caller binds.
Handlers == {"f", "g"}

\* What delete listeners[i] leaves in the array (line 372).
Hole == ""

\* Lines 367-375: the first entry identical to handler is deleted.
RECURSIVE deleteFirst(_, _)
deleteFirst(list, handler) ==
    IF list = << >> THEN << >>
    ELSE IF Head(list) = handler THEN << Hole >> \o Tail(list)
    ELSE << Head(list) >> \o deleteFirst(Tail(list), handler)

\* The handlers of a list without the first occurrence of handler.
RECURSIVE withoutFirst(_, _)
withoutFirst(list, handler) ==
    IF list = << >> THEN << >>
    ELSE IF Head(list) = handler THEN Tail(list)
    ELSE << Head(list) >> \o withoutFirst(Tail(list), handler)

IsHandler(x) == x # Hole

EventInit == InstanceIdle /\ call = NoCall /\ HookIdle

\* new Class(): lines 385-412.
Construct ==
    /\ instances < MaxInstances
    /\ instances' = instances + 1
    /\ eventScope' = instances + 1
    /\ listeners' = Append(listeners, << >>)
    /\ boundVia' = Append(boundVia, << >>)
    /\ UNCHANGED <<invoked, call, playback>>

\* instance.onX.bind(handler): lines 346-354.
Bind(i, handler) ==
    /\ i \in 1..instances
    /\ Len(listeners[eventScope]) < MaxListeners
    /\ listeners' = [listeners EXCEPT ![eventScope] = Append(@, handler)]
    /\ boundVia' = [boundVia EXCEPT ![i] = Append(@, handler)]
    /\ UNCHANGED <<instances, eventScope, invoked, call, playback>>

\* instance.onX.unbind(handler): lines 357-377.
Unbind(i, handler) ==
    /\ i \in 1..instances
    /\ listeners' = [listeners EXCEPT ![eventScope] = deleteFirst(@, handler)]
    /\ boundVia' = [boundVia EXCEPT ![i] = withoutFirst(@, handler)]
    /\ UNCHANGED <<instances, eventScope, invoked, call, playback>>

\* instance.onX(): lines 316-341, the original implementation not
\* returning false.
Fire(i) ==
    /\ i \in 1..instances
    /\ invoked' = [by |-> i, handlers |-> SelectSeq(listeners[i], IsHandler)]
    /\ UNCHANGED <<instances, eventScope, listeners, boundVia, call, playback>>

EventNext ==
    \/ Construct
    \/ \E i \in 1..MaxInstances, handler \in Handlers : Bind(i, handler)
    \/ \E i \in 1..MaxInstances, handler \in Handlers : Unbind(i, handler)
    \/ \E i \in 1..MaxInstances : Fire(i)

EventSpec == EventInit /\ [][EventNext]_vars

(***************************************************************************)
(* getRGB, lines 307-342.  A string is the sequence of its characters.     *)
(* The result is the array returned; undefined, the fourth element when    *)
(* the rgb pattern matched without a fourth number, is -1.                 *)
(***************************************************************************)
undefined == -1

DecDigits == <<"0", "1", "2", "3", "4", "5", "6", "7", "8", "9">>
LowerHex == DecDigits \o <<"a", "b", "c", "d", "e", "f">>
UpperHex == DecDigits \o <<"A", "B", "C", "D", "E", "F">>

Range(f) == { f[i] : i \in DOMAIN f }

\* [a-f0-9] under the i flag.
IsHexDigit(ch) == ch \in Range(LowerHex) \cup Range(UpperHex)

\* [0-9]
IsDecDigit(ch) == ch \in Range(DecDigits)

\* The value parseInt gives one digit in radix 16 or 10.
digitValue(ch) ==
    IF ch \in Range(LowerHex)
    THEN (CHOOSE i \in DOMAIN LowerHex : LowerHex[i] = ch) - 1
    ELSE (CHOOSE i \in DOMAIN UpperHex : UpperHex[i] = ch) - 1

\* parseInt(str, radix) of a string of digits of that radix.
RECURSIVE parseIntRadix(_, _)
parseIntRadix(str, radix) ==
    IF str = << >> THEN 0
    ELSE parseIntRadix(SubSeq(str, 1, Len(str) - 1), radix) * radix
         + digitValue(str[Len(str)])

\* /^([a-f0-9])([a-f0-9])([a-f0-9])$/i
matchHex3(str) == Len(str) = 3 /\ \A i \in 1..3 : IsHexDigit(str[i])

\* /^([a-f0-9]{2})([a-f0-9]{2})([a-f0-9]{2})$/i
matchHex6(str) == Len(str) = 6 /\ \A i \in 1..6 : IsHexDigit(str[i])

\* A doubling that repeats the three digits as a group.
repeatGroup(temp) == temp \o temp

\* Lines 321-326: style += temp[i] + temp[i] for the three groups.
doubleDigits(temp) == << temp[1], temp[1], temp[2], temp[2], temp[3], temp[3] >>

(***************************************************************************)
(* The pattern of line 336,                                                *)
(*   /rgba?\s*\(([0-9]+)\s*,\s*([0-9]+)\s*,\s*([0-9]+)\s*(?:,\s*([0-9]+))?\)/   *)
(* matched from a position of the string.  A position is the index of the  *)
(* next character, 0 once the match has failed.  Every quantifier of the   *)
(* pattern is followed by something its own characters cannot match, so    *)
(* the greedy choice is the only one and nothing is left to backtracking.  *)
(***************************************************************************)
\* One literal character.
expect(str, p, ch) ==
    IF p # 0 /\ p <= Len(str) /\ str[p] = ch THEN p + 1 ELSE 0

\* \s* (the strings of the model hold no other white space than " ").
RECURSIVE skipSpaces(_, _)
skipSpaces(str, p) ==
    IF p # 0 /\ p <= Len(str) /\ str[p] = " " THEN skipSpaces(str, p + 1) ELSE p

\* [0-9]* from p, greedy.
RECURSIVE digitsEnd(_, _)
digitsEnd(str, p) ==
    IF p # 0 /\ p <= Len(str) /\ IsDecDigit(str[p]) THEN digitsEnd(str, p + 1) ELSE p

\* [0-9]+ from p.
digits(str, p) == IF digitsEnd(str, p) = p THEN 0 ELSE digitsEnd(str, p)

NoMatch == [ok |-> FALSE, m1 |-> << >>, m2 |-> << >>, m3 |-> << >>, m4 |-> << >>, has4 |-> FALSE]

matchRgbAt(str, p) ==
    LET r == expect(str, expect(str, expect(str, p, "r"), "g"), "b")
        a == IF expect(str, r, "a") # 0 THEN expect(str, r, "a") ELSE r
        open == expect(str, skipSpaces(str, a), "(")
        e1 == digits(str, open)
        b2 == skipSpaces(str, expect(str, skipSpaces(str, e1), ","))
        e2 == digits(str, b2)
        b3 == skipSpaces(str, expect(str, skipSpaces(str, e2), ","))
        e3 == digits(str, b3)
        w3 == skipSpaces(str, e3)
        b4 == skipSpaces(str, expect(str, w3, ","))
        e4 == digits(str, b4)
    IN  IF expect(str, e4, ")") # 0
        THEN [ok |-> TRUE, m1 |-> SubSeq(str, open, e1 - 1), m2 |-> SubSeq(str, b2, e2 - 1),
              m3 |-> SubSeq(str, b3, e3 - 1), m4 |-> SubSeq(str, b4, e4 - 1), has4 |-> TRUE]
        ELSE IF expect(str, w3, ")") # 0
        THEN [ok |-> TRUE, m1 |-> SubSeq(str, open, e1 - 1), m2 |-> SubSeq(str, b2, e2 - 1),
              m3 |-> SubSeq(str, b3, e3 - 1), m4 |-> << >>, has4 |-> FALSE]
        ELSE NoMatch

\* String.prototype.match without the g flag: the leftmost match.
matchRgb(str) ==
    LET at == { p \in 1..Len(str) : matchRgbAt(str, p).ok }
    IN  IF at = {} THEN NoMatch
        ELSE matchRgbAt(str, CHOOSE p \in at : \A q \in at : p <= q)

\* getRGB(style); css is the string handed in as style.
getRGB(css) ==
    IF css # << >> /\ css[1] = "#"
    THEN LET sub == Tail(css)
             hex == IF matchHex3(sub) THEN doubleDigits(sub) ELSE sub
         IN  IF matchHex6(hex)
             THEN << parseIntRadix(SubSeq(hex, 1, 2), 16), parseIntRadix(SubSeq(hex, 3, 4), 16),
                     parseIntRadix(SubSeq(hex, 5, 6), 16) >>
             ELSE << 255, 255, 255 >>
    ELSE LET m == matchRgb(css)
         IN  IF m.ok
             THEN << parseIntRadix(m.m1, 10), parseIntRadix(m.m2, 10), parseIntRadix(m.m3, 10),
                     IF m.has4 THEN parseIntRadix(m.m4, 10) ELSE undefined >>
             ELSE << 255, 255, 255 >>

(***************************************************************************)
(* getRGB applied directly to one string, as animateKeyframe applies it at *)
(* lines 182-183 to a current style value and to a keyframe's target.      *)
(***************************************************************************)
MaxHexLen == 7

\* "#" and three hex digits, and the same with each digit written twice.
HexStrings ==
    LET hex == Range(LowerHex) \cup Range(UpperHex)
    IN  { << "#", a, b, c >> : a, b, c \in hex }
        \cup { << "#", a, a, b, b, c, c >> : a, b, c \in hex }

\* "#" and up to MaxHexLen characters, hex digits or not.
HashStrings == { << "#" >> \o t : t \in SeqsUpTo({"0", "F", "g"}, MaxHexLen) }

\* The numbers written into the functional notations.
NumberStrings == { << "0" >>, << "1", "2" >>, << "2", "5", "5" >> }

\* rgb(...) and rgba(...) strings as the tests and getComputedStyle write
\* them, with and without a fourth number, and the same cut short, with a
\* misspelt name, or inside other text.
FunctionalString(pre, nm, n1, n2, n3, sep, al, close, post) ==
    pre \o nm \o << "(" >> \o n1 \o sep \o n2 \o sep \o n3 \o al \o close \o post

WellFormedStrings ==
    { FunctionalString(<< >>, nm, n1, n2, n3, sep, al, << ")" >>, << >>) :
        nm \in { << "r", "g", "b" >>, << "r", "g", "b", "a" >>, << "r", "g", "b", " " >> },
        n1 \in NumberStrings, n2 \in NumberStrings, n3 \in NumberStrings,
        sep \in { << "," >>, << ",", " " >> },
        al \in { << >>, << ",", "0" >>, << ",", " ", "1" >>, << ",", " ", "0", ".", "5" >> } }

FunctionalStrings ==
    { FunctionalString(pre, nm, n1, << "1", "2" >>, n3, sep, al, close, post) :
        pre \in { << >>, << "x" >> },
        nm \in { << "r", "g", "b" >>, << "r", "g", "b", "a" >>, << "r", "g", "b", "b" >>,
                 << "r", "g", "b", " " >> },
        n1 \in NumberStrings \cup { << >> }, n3 \in NumberStrings,
        sep \in { << "," >>, << ",", " " >> },
        al \in { << >>, << ",", "0" >>, << ",", " ", "0", ".", "5" >> },
        close \in { << ")" >>, << >> },
        post \in { << >>, << "x" >> } }

ColorInputs ==
    HexStrings \cup HashStrings \cup WellFormedStrings \cup FunctionalStrings
    \cup { << >>, << "r", "e", "d" >> }

ColorInit == InstanceIdle /\ call = NoCall /\ HookIdle

Parse ==
    /\ call = NoCall
    /\ \E css \in ColorInputs :
          call' = [NoCall EXCEPT !.fn = "getRGB", !.style = css, !.rgb = getRGB(css)]
    /\ UNCHANGED <<playback, hook>>

ColorNext == Parse

ColorSpec == ColorInit /\ [][ColorNext]_vars

(***************************************************************************)
(* One colour channel of one frame: the deltas animateKeyframe compiles    *)
(* for it on entering the frame (lines 176-200) and the value a tick       *)
(* writes (lines 224-235), for a frame of duration 2 ticked at progress    *)
(* 0, 1/2 and 1.  The value written, 'rgb(r, g, b)' or 'rgba(r, g, b, a)', *)
(* is the record of its notation and numbers.                              *)
(***************************************************************************)
\* arr[i - 1] of an array: undefined past its end.
elementAt(arr, i) == IF i <= Len(arr) THEN arr[i] ELSE undefined

\* typeof x == 'undefined'
typeofUndefined(x) == x = undefined

\* x !== 'undefined' for x a number or undefined (line 193, second operand):
\* neither is identical to a string.
notTheString(x) == TRUE

\* Lines 184-199, on the two parsed values.
colorDeltas(rgbSource, rgbTarget) ==
    LET withA == ~typeofUndefined(elementAt(rgbTarget, 4)) \/ notTheString(elementAt(rgbSource, 4))
        target3 == IF typeofUndefined(elementAt(rgbTarget, 4)) THEN 1 ELSE elementAt(rgbTarget, 4)
        source3 == IF typeofUndefined(elementAt(rgbSource, 4)) THEN 1 ELSE elementAt(rgbSource, 4)
    IN  [r |-> [delta |-> rgbTarget[1] - rgbSource[1], initial |-> rgbSource[1]],
         g |-> [delta |-> rgbTarget[2] - rgbSource[2], initial |-> rgbSource[2]],
         b |-> [delta |-> rgbTarget[3] - rgbSource[3], initial |-> rgbSource[3]],
         a |-> IF withA THEN [delta |-> target3 - source3, initial |-> source3] ELSE NoDelta,
         hasA |-> withA]

\* Lines 182-199: both values are parsed once, then the deltas are taken.
compileColor(source, target) ==
    CHOOSE deltas \in { colorDeltas(rgbSource, rgbTarget) :
                            rgbSource \in {getRGB(source)}, rgbTarget \in {getRGB(target)} } : TRUE

\* A write that runs the alpha through the frame's curve as well.
writeColorCurved(deltas, tm, e, d) ==
    [fmt |-> IF deltas.hasA THEN "rgba" ELSE "rgb",
     r |-> MathRound(timingFunction(tm, e, d, deltas.r.initial, deltas.r.delta)),
     g |-> MathRound(timingFunction(tm, e, d, deltas.g.initial, deltas.g.delta)),
     b |-> MathRound(timingFunction(tm, e, d, deltas.b.initial, deltas.b.delta)),
     a |-> IF deltas.hasA
           THEN timingFunction(tm, e, d, deltas.a.initial, deltas.a.delta)
           ELSE [num |-> 0, den |-> 1]]

\* Lines 224-235.
writeColor(deltas, tm, e, d) ==
    [fmt |-> IF deltas.hasA THEN "rgba" ELSE "rgb",
     r |-> MathRound(timingFunction(tm, e, d, deltas.r.initial, deltas.r.delta)),
     g |-> MathRound(timingFunction(tm, e, d, deltas.g.initial, deltas.g.delta)),
     b |-> MathRound(timingFunction(tm, e, d, deltas.b.initial, deltas.b.delta)),
     a |-> IF deltas.hasA
           THEN timingFunction("linear", e, d, deltas.a.initial, deltas.a.delta)
           ELSE [num |-> 0, den |-> 1]]

\* Current values and targets of a colour property: '#000', '#101',
\* 'rgb(0, 12, 0)', 'rgba(12, 0, 0, 0)', 'rgba(0, 12, 12, 1)' and 'red'.
ChannelColors ==
    { << "#", "0", "0", "0" >>, << "#", "1", "0", "1" >>,
      FunctionalString(<< >>, << "r", "g", "b" >>, << "0" >>, << "1", "2" >>, << "0" >>,
                       << ",", " " >>, << >>, << ")" >>, << >>),
      FunctionalString(<< >>, << "r", "g", "b", "a" >>, << "1", "2" >>, << "0" >>, << "0" >>,
                       << ",", " " >>, << ",", " ", "0" >>, << ")" >>, << >>),
      FunctionalString(<< >>, << "r", "g", "b", "a" >>, << "0" >>, << "1", "2" >>, << "1", "2" >>,
                       << ",", " " >>, << ",", " ", "1" >>, << ")" >>, << >>),
      << "r", "e", "d" >> }

\* The deltas Math.pow is tabulated for at progress 1/2.
Tabulated(deltas) ==
    \A k \in {"r", "g", "b"} :
        /\ deltas[k].delta < Len(PowHalfTable)
        /\ -deltas[k].delta < Len(PowHalfTable)

ChannelInit == InstanceIdle /\ call = NoCall /\ HookIdle

\* Entering a frame of timing tm with a colour property.
CompileColor ==
    /\ call = NoCall
    /\ \E source \in ChannelColors, target \in ChannelColors, tm \in TimingNames :
          call' = [NoCall EXCEPT !.fn = "compileColor", !.tm = tm, !.d = 2,
                                 !.source = source, !.target = target,
                                 !.deltas = compileColor(source, target)]
    /\ UNCHANGED <<playback, hook>>

\* A tick of that frame at progress e / d.
WriteColor ==
    /\ call.fn \in {"compileColor", "writeColor"}
    /\ \E e \in 0..call.d :
          /\ (call.tm # "linear" /\ 0 < e /\ e < call.d) => Tabulated(call.deltas)
          /\ call' = [call EXCEPT !.fn = "writeColor", !.e = e,
                                  !.written = writeColor(call.deltas, call.tm, e, call.d)]
    /\ UNCHANGED <<playback, hook>>

ChannelNext == CompileColor \/ WriteColor

ChannelSpec == ChannelInit /\ [][ChannelNext]_vars

(***************************************************************************)
(* Vocabulary of the properties.                                           *)
(***************************************************************************)
\* The number of keyframes the caller configured.
n0 == Len(options.keyframes)

\* A valid configuration: an element, at least one keyframe, whitelisted
\* properties only, and a recognized timing wherever one is given.
ValidOptions ==
    /\ options.element
    /\ n0 >= 1
    /\ options.timing \in TimingNames
    /\ \A i \in 1..n0 :
          /\ notAnimatable(options.keyframes[i]) = {}
          /\ options.keyframes[i].timing \in TimingNames \cup {""}

Fired(name) == { j \in 1..Len(log) : log[j].e = name }

AnimationEnded == Fired("AnimationEnd") # {}

\* C1: for one animate() call on a valid configuration with whitelisted
\* properties, AnimationBegin is the first event and fires once; every
\* KeyframeBegin(i) comes right after AnimationBegin (i = 0), after
\* KeyframeEnd(i-1), or after the KeyframeEnd of the last frame (i = 0), and
\* the event after it is KeyframeEnd(i); AnimationEnd fires at most once,
\* right after the KeyframeEnd of the last frame, and is the last event.
C1_LifecycleOrder ==
    ValidOptions =>
        \A j \in 1..Len(log) :
            LET ev == log[j]
                last == Len(keyframes) - 1
            IN  /\ (ev.e = "AnimationBegin") <=> (j = 1)
                /\ ev.e = "KeyframeBegin" =>
                      /\ \/ log[j-1].e = "AnimationBegin" /\ ev.i = 0
                         \/ log[j-1] = Event("KeyframeEnd", ev.i - 1)
                         \/ log[j-1] = Event("KeyframeEnd", last) /\ ev.i = 0
                      /\ ev.i \in 0..last
                      /\ j < Len(log) => log[j+1] = Event("KeyframeEnd", ev.i)
                /\ ev.e = "KeyframeEnd" => log[j-1] = Event("KeyframeBegin", ev.i)
                /\ ev.e = "AnimationEnd" =>
                      /\ j = Len(log)
                      /\ log[j-1] = Event("KeyframeEnd", last)
                /\ ev.e \in {"AnimationBegin", "KeyframeBegin", "KeyframeEnd", "AnimationEnd"}

\* A playback of a valid configuration with two keyframes and a closing
\* frame has run through to AnimationEnd.
C1_Witness ==
    /\ ValidOptions
    /\ n0 = 2
    /\ options.loops >= 1
    /\ AnimationEnded

\* C2: with loops = L >= 1 and n keyframes, the loop counter always equals L
\* minus the number of completed passes (KeyframeEnd of the closing frame,
\* index n), and when AnimationEnd has fired KeyframeEnd has fired exactly
\* L * (n + 1) times, L of them for the closing frame.
C2_LoopPasses ==
    (ValidOptions /\ options.loops >= 1 /\ called) =>
        LET passes == Cardinality({ j \in Fired("KeyframeEnd") : log[j].i = n0 })
        IN  /\ Len(keyframes) = n0 + 1
            /\ loops = options.loops - passes
            /\ ~AnimationEnded => passes < options.loops
            /\ AnimationEnded =>
                  /\ passes = options.loops
                  /\ Cardinality(Fired("KeyframeEnd")) = options.loops * (n0 + 1)

\* Two passes over two keyframes and the closing frame have ended.
C2_Witness ==
    /\ ValidOptions
    /\ options.loops = 2
    /\ n0 = 2
    /\ AnimationEnded
    /\ Cardinality(Fired("KeyframeEnd")) = 6

\* C3: under a fair scheduler and a clock that never goes backwards, every
\* animate() call on a valid configuration eventually fires AnimationEnd.
C3_EventuallyCompleted ==
    (called /\ ValidOptions) ~> AnimationEnded

\* C4: animate() without an element or without keyframes throws a
\* configuration error before AnimationBegin fires and before anything is
\* requested, and leaves the instance and the element as they were.
C4_ConfigurationError ==
    (called /\ (~options.element \/ n0 = 0)) =>
        /\ error.kind \in {"No element specified", "No keyframes specified"}
        /\ log = <<>>
        /\ ticks = {}
        /\ keyframes = options.keyframes
        /\ loops = options.loops
        /\ style = style0
        /\ lastWrite = NoWrite

\* animate() was called with an element, a positive loop count and an empty
\* keyframe list.
C4_Witness ==
    /\ called
    /\ options.element
    /\ options.loops >= 1
    /\ n0 = 0
    /\ error.kind = "No keyframes specified"

\* The events of the frames 0..k-1 of a first pass, after AnimationBegin.
FirstFrames(k) ==
    << Event("AnimationBegin", -1) >> \o
    [j \in 1..(2 * k) |->
        IF j % 2 = 1 THEN Event("KeyframeBegin", (j - 1) \div 2)
        ELSE Event("KeyframeEnd", (j - 2) \div 2)]

\* C5: if frame k >= 1 is the first frame with a property outside the
\* whitelist, the error is raised only on entering frame k: it names that
\* frame and its offending property, KeyframeBegin and KeyframeEnd have
\* fired for each of the frames 0..k-1, and the last style write is the
\* final write (progress 1) of frame k-1 to each of its style names.
C5_ErrorWhenFrameReached ==
    \A k \in 1..(n0 - 1) :
        ( /\ notAnimatable(options.keyframes[k + 1]) # {}
          /\ \A i \in 1..k : notAnimatable(options.keyframes[i]) = {}
          /\ error.kind = "PropertyNotAnimatable" ) =>
            /\ error.frame = k
            /\ error.name \in notAnimatable(options.keyframes[k + 1])
            /\ log = FirstFrames(k)
            /\ lastWrite.frame = k - 1
            /\ lastWrite.e = lastWrite.d
            /\ lastWrite.names =
                  UNION { multiProperties(name) : name \in DOMAIN options.keyframes[k].props }
            /\ \A ch \in lastWrite.names : style[ch].t = "px"

\* The error for fooBar in frame 1 has been raised after frame 0 moved left
\* away from 'auto'.
C5_Witness ==
    /\ error.kind = "PropertyNotAnimatable"
    /\ error.frame = 1
    /\ error.name = "fooBar"
    /\ style0["left"] = Str("auto")
    /\ style["left"].t = "px"

\* C6: once PropertyNotAnimatable has been raised on entering frame i,
\* KeyframeBegin(i) has not fired, no tick of frame i has written the style,
\* no callback is requested (so nothing more can run), and AnimationEnd has
\* not fired.
C6_AbortOnError ==
    error.kind = "PropertyNotAnimatable" =>
        /\ \A j \in 1..Len(log) : log[j] # Event("KeyframeBegin", error.frame)
        /\ lastWrite.frame # error.frame
        /\ ticks = {}
        /\ ~AnimationEnded
        /\ ~ENABLED Next

\* A looping playback was aborted on entering frame 1.
C6_Witness ==
    /\ error.kind = "PropertyNotAnimatable"
    /\ error.frame >= 1
    /\ options.loops >= 1
    /\ log[Len(log)] = Event("KeyframeEnd", error.frame - 1)

\* C7: with loops >= 1, when the closing frame (index n) has had its final
\* write, every style name of the original keyframes that held a pixel value
\* before animate() holds that value again, whatever the default timing.
C7_ClosingFrameRestores ==
    ( /\ ValidOptions
      /\ options.loops >= 1
      /\ lastWrite.frame = n0
      /\ lastWrite.e = lastWrite.d ) =>
        \A ch \in extraFrameNames(options.keyframes) :
            style0[ch].t = "px" => style[ch] = style0[ch]

\* The value animate() captures for a style name of the closing frame.
captured(ch) == IF style0[ch].t = "px" THEN Num(style0[ch].n) ELSE style0[ch]

KeyframeBegun == Fired("KeyframeBegin") # {}

C9_PlayOnce ==
    (ValidOptions /\ options.loops = 0 /\ called) =>
        LET whole == FirstFrames(n0) \o << Event("AnimationEnd", -1) >>
        IN  /\ Len(keyframes) = n0
            /\ Len(log) <= Len(whole)
            /\ \A j \in 1..Len(log) : log[j] = whole[j]

\* Two keyframes were played once and AnimationEnd has fired.
C9_Witness ==
    /\ ValidOptions
    /\ options.loops = 0
    /\ n0 = 2
    /\ AnimationEnded
    /\ Len(log) = 6

\* C10: when AnimationEnd has fired, this.loops is the configured value.
C10_LoopsReset ==
    AnimationEnded => loops = options.loops

\* C11: between a successful animate() and AnimationEnd exactly one callback
\* is outstanding whenever none is executing.
C11_OneTickOutstanding ==
    (ValidOptions /\ called /\ ~AnimationEnded) => Cardinality(ticks) = 1

\* C12: a tick that writes the style for a frame that has written before
\* uses a progress not below the previous one, and a callback requested for
\* a newly entered frame has no lastProgress and starts at progress 0.
C12_ProgressMonotonic ==
    [][ /\ \A c \in ticks : \A p \in c.lastProgress :
              (c \notin ticks' /\ lastWrite' # lastWrite) => lastWrite'.e >= p
        /\ \A c \in ticks' \ ticks :
              c.lastProgress = {} => (c.startTime = now' /\ progressOf(c, now') = 0)
      ]_vars

\* C13: every progress used for a write lies in [0, 1], that is, its
\* numerator lies between 0 and the duration, for any clock readings.
C13_ProgressInRange ==
    lastWrite # NoWrite => (0 <= lastWrite.e /\ lastWrite.e <= lastWrite.d)

C17_WitnessDefault ==
    /\ error = [kind |-> "TypeError", name |-> "bounce", frame |-> 1]
    /\ options.timing = "bounce"
    /\ keyframes[2].timing = ""

\* C15: ease-in is closed at both ends: at progress 0 the value is the
\* initial value, at progress 1 it is initial + delta, whatever the sign of
\* delta.
C15_EaseInClosure ==
    (call.fn = "timingFunction" /\ call.tm = "ease-in") =>
        /\ call.e = 0 => call.value.num = call.initial * call.value.den
        /\ call.e = call.d => call.value.num = (call.initial + call.delta) * call.value.den

\* C16: ease-out is closed at both ends: at progress 0 the value is the
\* initial value, at progress 1 it is initial + delta, the target.
C16_EaseOutClosure ==
    (call.fn = "timingFunction" /\ call.tm = "ease-out") =>
        /\ call.e = 0 => call.value.num = call.initial * call.value.den
        /\ call.e = call.d => call.value.num = (call.initial + call.delta) * call.value.den

\* C18: when an instance fires the hook, the handlers invoked are the ones
\* bound through that instance and not unbound through it since, in the
\* order of binding, and no handler bound through another instance.
C18_ListenerIsolation ==
    [][ invoked' # invoked => invoked'.handlers = boundVia[invoked'.by] ]_vars

\* C19: "#" followed by three hex digits a, b, c of either case parses as
\* "#" followed by aabbcc does, to [0xaa, 0xbb, 0xcc] (17 times the value
\* of each digit), an array of three elements, so without alpha.
C19_ShortHex ==
    ( /\ call.fn = "getRGB"
      /\ Len(call.style) = 4
      /\ call.style[1] = "#"
      /\ \A i \in 2..4 : IsHexDigit(call.style[i]) ) =>
        LET v(i) == CHOOSE n \in 0..15 :
                       \/ LowerHex[n + 1] = call.style[i]
                       \/ UpperHex[n + 1] = call.style[i]
        IN  /\ call.rgb = << 17 * v(2), 17 * v(3), 17 * v(4) >>
            /\ call.rgb = getRGB(<< "#", call.style[2], call.style[2], call.style[3],
                                   call.style[3], call.style[4], call.style[4] >>)
            /\ (\A i \in 2..4 : call.style[i] \in {"f", "F"}) => call.rgb = << 255, 255, 255 >>

\* "#aBc" was parsed to [170, 187, 204].
C19_Witness ==
    /\ call.fn = "getRGB"
    /\ call.style = << "#", "a", "B", "c" >>
    /\ call.rgb = << 170, 187, 204 >>

\* The notations the claim calls valid: "#" with three or six hex digits,
\* and a whole string rgb(...) or rgba(...) with three numbers and at most
\* one more.
ValidNotation(css) ==
    \/ /\ Len(css) \in {4, 7}
       /\ css[1] = "#"
       /\ \A i \in 2..Len(css) : IsHexDigit(css[i])
    \/ css \in WellFormedStrings

\* C20: every string that is not a valid notation parses to
\* [255, 255, 255], an array of three elements.
C20_FailSoft ==
    (call.fn = "getRGB" /\ ~ValidNotation(call.style)) => call.rgb = << 255, 255, 255 >>

\* C21: rgb(r,g,b) and rgba(r,g,b,a) parse to the three numbers written,
\* rgba(r,g,b,a) with a fourth element that is the integer part of a (0 for
\* 0.5).
C21_FunctionalNotation ==
    call.fn = "getRGB" =>
        \A n1 \in NumberStrings, n2 \in NumberStrings, n3 \in NumberStrings,
           sep \in { << "," >>, << ",", " " >> } :
            LET val(n) == IF n = << "0" >> THEN 0 ELSE IF n = << "1", "2" >> THEN 12 ELSE 255
                rgba(al) == FunctionalString(<< >>, << "r", "g", "b", "a" >>, n1, n2, n3,
                                             sep, al, << ")" >>, << >>)
            IN  /\ call.style = FunctionalString(<< >>, << "r", "g", "b" >>, n1, n2, n3,
                                                 sep, << >>, << ")" >>, << >>)
                      => SubSeq(call.rgb, 1, 3) = << val(n1), val(n2), val(n3) >>
                /\ call.style = rgba(<< ",", "0" >>)
                      => call.rgb = << val(n1), val(n2), val(n3), 0 >>
                /\ call.style = rgba(<< ",", " ", "1" >>)
                      => call.rgb = << val(n1), val(n2), val(n3), 1 >>
                /\ call.style = rgba(<< ",", " ", "0", ".", "5" >>)
                      => call.rgb = << val(n1), val(n2), val(n3), 0 >>

\* C22: every style name a tick writes is on the whitelist of animatable
\* properties or is an edge of borderWidth or borderColor, the closing
\* frame's names included.
C22_WrittenNamesAnimatable ==
    lastWrite.names \subseteq
        KEYFRAME_ANIMATION_PROPERTIES
        \cup { "borderTopWidth", "borderRightWidth", "borderBottomWidth", "borderLeftWidth",
               "borderTopColor", "borderRightColor", "borderBottomColor", "borderLeftColor" }

\* The closing frame of a playback whose keyframes name borderWidth wrote
\* the four edges.
C22_Witness ==
    /\ ValidOptions
    /\ lastWrite.frame = n0
    /\ {"borderTopWidth", "borderLeftWidth", "left"} \subseteq lastWrite.names

\* C23: the loop counter changes only in the tick that completes the last
\* frame of the list (it fires that frame's KeyframeEnd), and every such
\* tick takes exactly one off it, the last one then resetting it as
\* AnimationEnd fires.
C23_DecrementAtLastFrame ==
    [][ LET done == { c \in ticks :
                        /\ c.frameIndex = Len(keyframes) - 1
                        /\ c \notin ticks'
                        /\ Len(log') > Len(log)
                        /\ log'[Len(log) + 1] = Event("KeyframeEnd", c.frameIndex) }
        IN  /\ loops' # loops => done # {}
            /\ done # {} =>
                  \/ loops' = loops - 1 /\ log'[Len(log')].e # "AnimationEnd"
                  \/ /\ loops - 1 <= 0
                     /\ loops' = definitionLoops
                     /\ log'[Len(log')] = Event("AnimationEnd", -1)
      ]_vars

\* The first of two passes is over: frame 0 runs again, one pass is owed.
C23_Witness ==
    /\ ValidOptions
    /\ options.loops = 2
    /\ loops = 1
    /\ n0 = 2
    /\ \E c \in ticks : c.frameIndex = 0
    /\ Cardinality({ j \in Fired("KeyframeEnd") : log[j].i = n0 }) = 1

\* C24: a tick whose progress equals the progress of the previous tick of
\* the same frame leaves the style and the events as they are; the callback
\* requested on entering a frame has no previous progress, and its first
\* tick (the frame's timing being a known curve) writes every channel.
C24_DuplicateProgressSkipped ==
    [][ /\ \A c \in ticks :
              (c \notin ticks' /\ progressOf(c, now) \in c.lastProgress) =>
                  (style' = style /\ log' = log /\ lastWrite' = lastWrite)
        /\ \A c \in ticks :
              ( /\ c \notin ticks'
                /\ c.lastProgress = {}
                /\ resolvedTiming(keyframes, c, timing) \in TimingNames ) =>
                  /\ lastWrite' = [frame |-> c.frameIndex, e |-> progressOf(c, now),
                                   d |-> c.duration, names |-> DOMAIN c.deltas]
                  /\ \A ch \in DOMAIN c.deltas : style'[ch].t = "px"
        /\ \A c \in ticks' \ ticks :
              (Len(log') > Len(log)) => c.lastProgress = {}
      ]_vars

\* A tick found the progress of the tick before it and returned: the frame
\* is unfinished and nothing is requested.
C24_Witness ==
    /\ ValidOptions
    /\ called
    /\ error = NoError
    /\ ticks = {}
    /\ lastWrite.frame >= 0
    /\ lastWrite.e < lastWrite.d
    /\ log[Len(log)] = Event("KeyframeBegin", lastWrite.frame)

\* C25: the tick that fires KeyframeEnd(i) reads a clock of at least
\* startTime + duration of frame i, the duration being the keyframe's own
\* when set and the default otherwise; and a tick that reads such a clock
\* ends the frame, however many ticks ran before it.
C25_EndAtDuration ==
    [][ \A c \in ticks :
          LET ends == /\ c \notin ticks'
                      /\ Len(log') > Len(log)
                      /\ log'[Len(log) + 1] = Event("KeyframeEnd", c.frameIndex)
              own == keyframes[c.frameIndex + 1].duration
          IN  /\ c.duration = (IF own # 0 THEN own ELSE duration)
              /\ ends => now >= c.startTime + c.duration
              /\ ( /\ c \notin ticks'
                   /\ now >= c.startTime + c.duration
                   /\ resolvedTiming(keyframes, c, timing) \in TimingNames ) => ends
      ]_vars

\* The only frame, of the default duration 2, ended on a tick that read 3.
C25_Witness ==
    /\ n0 = 1
    /\ options.loops = 0
    /\ options.keyframes[1].duration = 0
    /\ now = 3
    /\ lastWrite = [frame |-> 0, e |-> 2, d |-> 2, names |-> {"left"}]
    /\ AnimationEnded
    /\ log[Len(log) - 1] = Event("KeyframeEnd", 0)

\* C26: the deltas of a frame are compiled on entering it, on every pass,
\* from the style of that moment (initial is the integer the style holds, 0
\* for a value that is none), they stay as compiled while the frame's
\* callback is requested again, and initial + delta is the frame's target
\* for every channel throughout.
C26_DeltasCompiledOnEntry ==
    [][ /\ \A c \in ticks' \ ticks :
              \A ch \in DOMAIN c.deltas :
                 LET props == keyframes'[c.frameIndex + 1].props
                     target == IF ch \in DOMAIN props THEN props[ch] ELSE props["borderWidth"]
                 IN  /\ c.deltas[ch].initial + c.deltas[ch].delta = target.n
                     /\ target.t = "num"
                     /\ Len(log') > Len(log) =>
                           /\ log'[Len(log')] = Event("KeyframeBegin", c.frameIndex)
                           /\ c.startTime = now
                           /\ c.deltas[ch].initial
                                 = (IF style'[ch].t = "px" THEN style'[ch].n ELSE 0)
        /\ \A c \in ticks, c2 \in ticks' :
              (c.frameIndex = c2.frameIndex /\ Len(log') = Len(log)) =>
                  (c2.deltas = c.deltas /\ c2.startTime = c.startTime)
        /\ (ticks' # ticks /\ Len(log') = Len(log)) => keyframes' = keyframes
      ]_vars

\* Frame 0 was entered for the second pass with left at 0px again and its
\* deltas compiled anew.
C26_Witness ==
    /\ ValidOptions
    /\ options.loops = 2
    /\ loops = 1
    /\ log[Len(log)] = Event("KeyframeBegin", 0)
    /\ \E c \in ticks :
          /\ c.frameIndex = 0
          /\ c.startTime > 0
          /\ c.lastProgress = {}
          /\ c.deltas["left"] = [delta |-> 4, initial |-> 0]

\* C27: the alpha a tick writes for a colour channel is
\* initial + delta * progress, whatever the frame's timing.
C27_AlphaLinear ==
    (call.fn = "writeColor" /\ call.deltas.hasA) =>
        /\ call.written.fmt = "rgba"
        /\ call.written.a.num * call.d =
              (call.deltas.a.initial * call.d + call.deltas.a.delta * call.e) * call.written.a.den

\* Halfway through an ease-in frame from 'rgb(0, 12, 0)' to
\* 'rgba(12, 0, 0, 0)' the alpha written is 1/2.
C27_Witness ==
    /\ call.fn = "writeColor"
    /\ call.tm = "ease-in"
    /\ call.e = 1
    /\ call.d = 2
    /\ call.deltas.a = [delta |-> -1, initial |-> 1]
    /\ 2 * call.written.a.num = call.written.a.den

\* C28: when neither the current value nor the target parses with an alpha,
\* no alpha record is compiled and every tick writes 'rgb(r, g, b)'; with an
\* alpha on either side the record takes 1 for the missing side and the
\* ticks write 'rgba(r, g, b, a)'.
C28_AlphaOnlyWhenPresent ==
    call.fn \in {"compileColor", "writeColor"} =>
        LET sourceA == elementAt(getRGB(call.source), 4)
            targetA == elementAt(getRGB(call.target), 4)
        IN  IF sourceA = undefined /\ targetA = undefined
            THEN /\ ~call.deltas.hasA
                 /\ call.fn = "writeColor" => call.written.fmt = "rgb"
            ELSE /\ call.deltas.hasA
                 /\ call.deltas.a.initial = (IF sourceA = undefined THEN 1 ELSE sourceA)
                 /\ call.deltas.a.initial + call.deltas.a.delta
                       = (IF targetA = undefined THEN 1 ELSE targetA)
                 /\ call.fn = "writeColor" => call.written.fmt = "rgba"

\* The number of entries of list identical to handler.
Occurrences(list, handler) == Cardinality({ k \in DOMAIN list : list[k] = handler })

\* C29: when an instance fires the hook, a handler bound and then unbound
\* through that instance is not invoked; each handler is invoked once for
\* every binding of it that an unbind has not removed (an unbind removes one
\* binding), and the other handlers run in the order they were bound.
C29_UnbindRemovesOne ==
    [][ invoked' # invoked =>
          \A h \in Handlers :
              LET bound == boundVia[invoked'.by]
                  Other(x) == x # h
              IN  /\ Occurrences(invoked'.handlers, h) = Occurrences(bound, h)
                  /\ SelectSeq(invoked'.handlers, Other) = SelectSeq(bound, Other) ]_vars

\* C30: every animate() call made with loops > 0 appends one frame to the
\* keyframe list and nothing removes a frame: with loops positive at each
\* call, the list holds the n frames it was configured with and one more
\* for each call, during and after every playback.
C30_ListGrows ==
    /\ Len(keyframes) = n0 + playbacks
    /\ \A i \in 1..n0 : DOMAIN keyframes[i].props = DOMAIN options.keyframes[i].props

\* Two playbacks of a two-frame list have run to completion: four frames.
C30_Witness ==
    /\ n0 = 2
    /\ Cardinality(Fired("AnimationEnd")) = 2
    /\ ticks = {}
    /\ Len(keyframes) = 4

\* C31: however animate() calls and callbacks interleave on one instance,
\* no more AnimationEnd than AnimationBegin events have fired, and a chain
\* of callbacks fires AnimationEnd at most once: each animate() call has at
\* most one callback requested, and the chains that are still requested
\* and the AnimationEnd events fired are together no more than the
\* AnimationBegin events.
C31_EndsWithinBegins ==
    /\ Cardinality(Fired("AnimationEnd")) <= Cardinality(Fired("AnimationBegin"))
    /\ \A c \in ticks : \A d \in ticks : c.chain = d.chain => c = d
    /\ \A c \in ticks : c.chain \in 1..playbacks
    /\ Cardinality(ticks) + Cardinality(Fired("AnimationEnd")) <= playbacks

\* animate() was called again while the first playback was running; both
\* chains have fired their AnimationEnd.
C31_Witness ==
    /\ Len(log) >= 3
    /\ log[1].e = "AnimationBegin"
    /\ log[3].e = "AnimationBegin"
    /\ Cardinality(Fired("AnimationEnd")) = 2
    /\ ticks = {}

====
